---------------------------- MODULE Spec2Model ----------------------------
(***************************************************************************)
(* Model of the pricing core of resale_price_calculator                    *)
(* (src/domain/pricing.py): calculate_sale_price, the generator            *)
(* iterate_interest_costs and the memoised minimum_acceptable_interest;    *)
(* and of the sweep render_annual_sensitivity (src/ui/components.py).      *)
(*                                                                         *)
(* Numbers.  The program computes with Python floats; the specification    *)
(* speaks of reals.  The model computes with exact rationals <<n, d>>      *)
(* (d > 0, lowest terms), so equality of two values is equality of the     *)
(* reals they denote; rounding error of the float operations is not        *)
(* modelled.  The annual rates offered to the generator are those whose    *)
(* twelfth root is rational, so that (1 + rate) ** (1/12) is computed      *)
(* exactly.                                                                *)
(***************************************************************************)
EXTENDS Integers, Sequences, FiniteSets, TLC

VARIABLES
    pc,                 \* position of the caller of calculate_sale_price
    sale_type,          \* arguments of calculate_sale_price
    profit_application,
    purchase_price,
    tax_rate,
    profit_rate,
    interest_rate,
    outcome,            \* what the call produced: value returned or error raised
    gen_pc,             \* state of the generator object of iterate_interest_costs
    gen_args,           \* its arguments (purchase_price, selic_rate, total_months)
    gen_frame,          \* its suspended frame (the function's locals)
    steps,              \* the InterestSteps the consumer has received so far
    gen_error,          \* message of the ValueError raised into the consumer
    mai_pc,             \* position of the caller of minimum_acceptable_interest
    mai_args,           \* its arguments <<purchase_price, selic_rate, total_months>>
    mai_outcome,        \* what the call produced
    mai_served,         \* how: "hit", "first", "recomputed" or "error"
    cache,              \* the lru_cache: entries [key, value], least recent first
    seen,               \* history: the keys that were ever cached
    fill_count,         \* how many of the fresh keys the caller has used
    sweep_pc,           \* position of render_annual_sensitivity
    sweep_args,         \* its arguments
    candidate,          \* its loop variable candidate_profit_pct
    data,               \* its list of rows <<candidate_profit_pct, sale_price>>
    gens                \* two generator objects of iterate_interest_costs, each
                        \* with its pc, args, frame, steps and error

pricing_vars == <<pc, sale_type, profit_application, purchase_price, tax_rate,
                  profit_rate, interest_rate, outcome>>
gen_vars == <<gen_pc, gen_args, gen_frame, steps, gen_error>>
mai_vars == <<mai_pc, mai_args, mai_outcome, mai_served, cache, seen, fill_count>>
sweep_vars == <<sweep_pc, sweep_args, candidate, data>>
vars == <<pricing_vars, gen_vars, mai_vars, sweep_vars, gens>>

-----------------------------------------------------------------------------
(* Bounds of the model *)

\* rates are the multiples of 1/RateDen
RateDen == 3
\* interest rates run over k/RateDen, k in -1..MaxInterestNum
MaxInterestNum == 4
\* purchase prices run over -1..MaxPrice
MaxPrice == 2
\* total_months runs over -1..MaxMonths
MaxMonths == 4
\* monthly rates behind the annual rates run over k/2, k in 0..MaxMonthlyNum
MaxMonthlyNum == 2
\* a caller of the cache has fresh keys 1..MaxFill to call it with
MaxFill == 130
\* profit_delta runs over 0..MaxDelta
MaxDelta == 2

(* Program constants *)
ANNUAL_MONTHS == 12
\* @lru_cache(maxsize=128)
maxsize == 128

-----------------------------------------------------------------------------
(* Exact rational arithmetic standing for the float operations *)

Abs(x) == IF x < 0 THEN -x ELSE x

RECURSIVE GCD(_, _)
GCD(a, b) == IF b = 0 THEN a ELSE GCD(b, a % b)

Rat(n, d) ==
    LET s == IF d < 0 THEN -1 ELSE 1
        g == GCD(Abs(n), Abs(d))
    IN  <<(s * n) \div g, (s * d) \div g>>

Zero == <<0, 1>>
One == <<1, 1>>
FromInt(k) == <<k, 1>>

\* sums and comparisons go over the least common denominator
Scale(a, b) == b[2] \div GCD(a[2], b[2])

RAdd(a, b) ==
    Rat(a[1] * Scale(a, b) + b[1] * Scale(b, a), a[2] * Scale(a, b))
RSub(a, b) ==
    Rat(a[1] * Scale(a, b) - b[1] * Scale(b, a), a[2] * Scale(a, b))
RMul(a, b) == Rat(a[1] * b[1], a[2] * b[2])
RDiv(a, b) == Rat(a[1] * b[2], a[2] * b[1])
RLt(a, b) == a[1] * Scale(a, b) < b[1] * Scale(b, a)
RLe(a, b) == a[1] * Scale(a, b) <= b[1] * Scale(b, a)

-----------------------------------------------------------------------------
(* Inputs *)

OPTIONS_LUCRO == {"Aplicado na compra", "Aplicado na venda"}
OPTIONS_VENDA == {"Anual", "Mensal"}

\* what a caller may pass: the two options and a string that is neither
SaleTypes == OPTIONS_VENDA \cup {"Invalid"}
ProfitApplications == OPTIONS_LUCRO \cup {"Invalid"}

Prices == {FromInt(k) : k \in -1..MaxPrice}
Rates == {Rat(k, RateDen) : k \in -1..(RateDen + 1)}
InterestRates == {Rat(k, RateDen) : k \in -1..MaxInterestNum}

-----------------------------------------------------------------------------
(* calculate_sale_price *)

Raised(msg) == [status |-> "raised", error |-> msg, value |-> <<>>]
Returned(v) == [status |-> "returned", error |-> "", value |-> v]

\* the input validation; "" when every check passes
FieldErrorOffByOne(p, t, r, i) ==
    IF RLt(p, Zero) THEN "purchase_price must be > 0"
    ELSE IF ~(RLe(Zero, t) /\ RLt(t, One)) THEN "tax_rate must be in range [0, 1)"
    ELSE IF ~(RLe(Zero, r) /\ RLt(r, One)) THEN "profit_rate must be in range [0, 1)"
    ELSE IF RLt(i, Zero) THEN "interest_rate must be >= 0"
    ELSE ""

FieldError(p, t, r, i) ==
    IF RLe(p, Zero) THEN "purchase_price must be > 0"
    ELSE IF ~(RLe(Zero, t) /\ RLt(t, One)) THEN "tax_rate must be in range [0, 1)"
    ELSE IF ~(RLe(Zero, r) /\ RLt(r, One)) THEN "profit_rate must be in range [0, 1)"
    ELSE IF RLt(i, Zero) THEN "interest_rate must be >= 0"
    ELSE ""

NetDenominator(t) == RSub(One, t)

SaleDenominatorNoTax(r, t) == RSub(One, r)

SaleDenominator(r, t) == RSub(RSub(One, r), t)

\* the guard "sale_denominator <= 0"
Infeasible(d) == RLe(d, Zero)

\* Anual, "Aplicado na compra"
SalePriceAnualCompraNoMargin(p, m, r) == RMul(p, m)

SalePriceAnualCompra(p, m, r) == RAdd(RMul(p, m), RMul(RMul(p, r), m))

\* Anual, "Aplicado na venda"
SalePriceAnualVenda(p, d) == RDiv(p, d)

\* net_profit of both Anual branches
NetProfitAnual(sp, t, p) == RSub(RSub(sp, RMul(sp, t)), p)

\* Mensal, "Aplicado na compra"
AnnualSalePriceMensalCompraInterestUntaxed(p, m, r, i) ==
    RAdd(RAdd(RMul(p, m), RMul(RMul(p, m), r)), RMul(p, i))

AnnualSalePriceMensalCompra(p, m, r, i) ==
    RAdd(RAdd(RMul(p, m), RMul(RMul(p, m), r)), RMul(RMul(p, m), i))

\* Mensal, "Aplicado na venda"
AnnualSalePriceMensalVendaByDenominator(p, d, m, i) ==
    RAdd(RDiv(p, d), RDiv(RMul(p, i), d))

AnnualSalePriceMensalVendaNoInterest(p, d, m, i) == RDiv(p, d)

AnnualSalePriceMensalVenda(p, d, m, i) ==
    RAdd(RDiv(p, d), RMul(RMul(p, i), m))

MonthlySalePrice(asp) == RDiv(asp, FromInt(ANNUAL_MONTHS))

\* net_profit of both Mensal branches
NetProfitMensalNoInterest(asp, t, p, i) ==
    RSub(RSub(asp, RMul(asp, t)), p)

NetProfitMensal(asp, t, p, i) ==
    RSub(RSub(RSub(asp, RMul(asp, t)), RMul(p, i)), p)

\* the final "else" of the dispatch on sale_type
InvalidSaleType(st) == Raised("Invalid sale_type: " \o st)

\* the final "else" of the dispatch on profit_application
InvalidProfitApplicationAsSaleType(pa) == Raised("Invalid sale_type: " \o pa)

InvalidProfitApplication(pa) == Raised("Invalid profit_application: " \o pa)

\* The text returned as third value, as the sequence of quantities it
\* formats, in the order it shows them.
Derivation(labels, values) ==
    [k \in 1..Len(labels) |-> <<labels[k], values[k]>>]

calculate_sale_price(st, pa, p, t, r, i) ==
    LET net_denominator == NetDenominator(t)
        net_multiplier == RDiv(One, net_denominator)
        sale_denominator == SaleDenominator(r, t)
    IN
    IF FieldError(p, t, r, i) # "" THEN Raised(FieldError(p, t, r, i))
    ELSE IF RLe(net_denominator, Zero)
        THEN Raised("tax_rate makes calculation impossible (>= 100%)")
    ELSE IF st = "Anual" THEN
        IF pa = "Aplicado na compra" THEN
            LET sale_price == SalePriceAnualCompra(p, net_multiplier, r)
                net_profit == NetProfitAnual(sale_price, t, p)
            IN  Returned(<<sale_price, net_profit,
                    Derivation(<<"multiplicador liquido", "Preco de venda",
                                 "Impostos", "Margem bruta">>,
                               <<net_multiplier, sale_price,
                                 RMul(sale_price, t), net_profit>>)>>)
        ELSE IF pa = "Aplicado na venda" THEN
            IF Infeasible(sale_denominator)
            THEN Raised("profit_rate + tax_rate makes calculation impossible (>= 100%)")
            ELSE
            LET sale_price == SalePriceAnualVenda(p, sale_denominator)
                net_profit == NetProfitAnual(sale_price, t, p)
            IN  Returned(<<sale_price, net_profit,
                    Derivation(<<"denominador de venda", "Preco de venda",
                                 "Impostos", "Margem bruta">>,
                               <<sale_denominator, sale_price,
                                 RMul(sale_price, t), net_profit>>)>>)
        ELSE InvalidProfitApplication(pa)
    ELSE IF st = "Mensal" THEN
        IF pa = "Aplicado na compra" THEN
            LET annual_sale_price ==
                    AnnualSalePriceMensalCompra(p, net_multiplier, r, i)
                sale_price == MonthlySalePrice(annual_sale_price)
                net_profit == NetProfitMensal(annual_sale_price, t, p, i)
            IN  Returned(<<sale_price, net_profit,
                    Derivation(<<"multiplicador liquido", "Preco de venda anual",
                                 "Preco de venda mensal", "Impostos", "Juros",
                                 "Margem bruta">>,
                               <<net_multiplier, annual_sale_price, sale_price,
                                 RMul(annual_sale_price, t), RMul(p, i),
                                 net_profit>>)>>)
        ELSE IF pa = "Aplicado na venda" THEN
            IF Infeasible(sale_denominator)
            THEN Raised("profit_rate + tax_rate makes calculation impossible (>= 100%)")
            ELSE
            LET annual_sale_price ==
                    AnnualSalePriceMensalVenda(p, sale_denominator, net_multiplier, i)
                sale_price == MonthlySalePrice(annual_sale_price)
                net_profit == NetProfitMensal(annual_sale_price, t, p, i)
            IN  Returned(<<sale_price, net_profit,
                    Derivation(<<"denominador de venda", "multiplicador liquido",
                                 "Preco de venda anual", "Preco de venda mensal",
                                 "Impostos", "Juros", "Margem bruta">>,
                               <<sale_denominator, net_multiplier,
                                 annual_sale_price, sale_price,
                                 RMul(annual_sale_price, t), RMul(p, i),
                                 net_profit>>)>>)
        ELSE InvalidProfitApplication(pa)
    ELSE InvalidSaleType(st)

NoOutcome == [status |-> "none", error |-> "", value |-> <<>>]

-----------------------------------------------------------------------------
(* iterate_interest_costs *)

RECURSIVE IPow(_, _)
IPow(b, e) == IF e = 0 THEN 1 ELSE b * IPow(b, e - 1)

RPow(a, e) == <<IPow(a[1], e), IPow(a[2], e)>>

\* the integer whose twelfth power is n
IntRoot12(n) == CHOOSE k \in 0..(2 + MaxMonthlyNum) : IPow(k, ANNUAL_MONTHS) = n

\* x ** (1/12), for x the twelfth power of a rational
Root12(x) == <<IntRoot12(x[1]), IntRoot12(x[2])>>

\* annual rates: those with monthly rate k/2, and a negative one
SelicRates ==
    {RSub(RPow(RAdd(One, Rat(k, 2)), ANNUAL_MONTHS), One) : k \in 0..MaxMonthlyNum}
        \cup {Rat(-1, 2)}
Months == -1..MaxMonths

InterestStep(month, outstanding_balance, monthly_interest, cumulative_interest) ==
    [month |-> month,
     outstanding_balance |-> outstanding_balance,
     monthly_interest |-> monthly_interest,
     cumulative_interest |-> cumulative_interest]

\* the input validation; "" when every check passes
ScheduleErrorRateFirst(p, s, T) ==
    IF RLt(s, Zero) THEN "selic_rate must be >= 0"
    ELSE IF RLe(p, Zero) THEN "purchase_price must be > 0"
    ELSE IF T < 1 THEN "total_months must be >= 1"
    ELSE ""

ScheduleError(p, s, T) ==
    IF RLe(p, Zero) THEN "purchase_price must be > 0"
    ELSE IF T < 1 THEN "total_months must be >= 1"
    ELSE IF RLt(s, Zero) THEN "selic_rate must be >= 0"
    ELSE ""

MonthlySelicNoMinusOne(s) == Root12(RAdd(One, s))

\* exponent 1 // 12 = 0
MonthlySelicIntegerExponent(s) == RSub(RPow(RAdd(One, s), 0), One)

MonthlySelic(s) == RSub(Root12(RAdd(One, s)), One)

MonthlyPaymentPerYear(p, T) == RDiv(p, FromInt(ANNUAL_MONTHS))

MonthlyPayment(p, T) == RDiv(p, FromInt(T))

\* the locals before the loop; month 0 stands for "range not yet started"
InitialFrame(p, s, T) ==
    [month |-> 0,
     monthly_selic |-> MonthlySelic(s),
     outstanding_balance |-> p,
     monthly_payment |-> MonthlyPayment(p, T),
     monthly_interest |-> Zero,
     cumulative_interest |-> Zero]

\* "for month in range(1, total_months + 1)": is there a next month
RangeHasNextShort(f, T) == f.month + 1 <= T - 1

RangeHasNext(f, T) == f.month + 1 <= T

\* the loop body up to the yield, for the next month of the range
LoopBodyNoAccumulation(f) ==
    LET monthly_interest == RMul(f.outstanding_balance, f.monthly_selic)
    IN  [f EXCEPT !.month = f.month + 1,
                  !.monthly_interest = monthly_interest,
                  !.cumulative_interest = monthly_interest]

LoopBody(f) ==
    LET monthly_interest == RMul(f.outstanding_balance, f.monthly_selic)
    IN  [f EXCEPT !.month = f.month + 1,
                  !.monthly_interest = monthly_interest,
                  !.cumulative_interest = RAdd(f.cumulative_interest, monthly_interest)]

Yielded(f) ==
    InterestStep(f.month, f.outstanding_balance, f.monthly_interest,
                 f.cumulative_interest)

\* the statement after the yield
AfterYield(f) ==
    [f EXCEPT !.outstanding_balance = RSub(f.outstanding_balance, f.monthly_payment)]

NoFrame ==
    [month |-> 0, monthly_selic |-> Zero, outstanding_balance |-> Zero,
     monthly_payment |-> Zero, monthly_interest |-> Zero,
     cumulative_interest |-> Zero]

\* list(iterate_interest_costs(p, s, T)) from the frame f on, for valid arguments
RECURSIVE ScheduleFrom(_, _)
ScheduleFrom(f, T) ==
    IF RangeHasNext(f, T)
    THEN <<Yielded(LoopBody(f))>> \o ScheduleFrom(AfterYield(LoopBody(f)), T)
    ELSE <<>>

Schedule(p, s, T) == ScheduleFrom(InitialFrame(p, s, T), T)

-----------------------------------------------------------------------------
(* minimum_acceptable_interest and its lru_cache *)

\* "for step in iterate_interest_costs(...): last_cumulative = step.cumulative_interest"
RECURSIVE ConsumeAll(_, _, _)
ConsumeAll(f, T, last_cumulative) ==
    IF RangeHasNext(f, T)
    THEN ConsumeAll(AfterYield(LoopBody(f)), T, Yielded(LoopBody(f)).cumulative_interest)
    ELSE last_cumulative

PercentageOfAmount(last_cumulative, p) == RMul(last_cumulative, FromInt(100))

PercentageNoScale(last_cumulative, p) == RDiv(last_cumulative, p)

Percentage(last_cumulative, p) == RMul(RDiv(last_cumulative, p), FromInt(100))

\* the function under the decorator
minimum_acceptable_interest(p, s, T) ==
    IF ScheduleError(p, s, T) # "" THEN Raised(ScheduleError(p, s, T))
    ELSE Returned(Percentage(ConsumeAll(InitialFrame(p, s, T), T, Zero), p))

\* the key lru_cache makes of the positional arguments
CacheKeyWithoutMonths(p, s, T) == <<p, s>>

CacheKey(p, s, T) == <<p, s, T>>

CacheHits(c, key) == {k \in 1..Len(c) : c[k].key = key}

CacheFull(c) == Len(c) >= maxsize

\* a hit moves the entry to the most recent end
Touch(c, k) ==
    [j \in 1..Len(c) |->
        IF j < k THEN c[j] ELSE IF j < Len(c) THEN c[j + 1] ELSE c[k]]

\* a miss stores the result, evicting the least recent entry of a full cache
Store(c, key, value) ==
    Append(IF CacheFull(c) THEN Tail(c) ELSE c, [key |-> key, value |-> value])

\* one call of the decorated function; an exception is not cached
CachedCall(p, s, T) ==
    LET key == CacheKey(p, s, T)
        hits == CacheHits(cache, key)
    IN  IF hits # {}
        THEN LET k == CHOOSE k \in hits : TRUE
             IN  /\ mai_outcome' = Returned(cache[k].value)
                 /\ cache' = Touch(cache, k)
                 /\ mai_served' = "hit"
                 /\ UNCHANGED seen
        ELSE LET result == minimum_acceptable_interest(p, s, T)
             IN  /\ mai_outcome' = result
                 /\ IF result.status = "raised"
                    THEN /\ mai_served' = "error"
                         /\ UNCHANGED <<cache, seen>>
                    ELSE /\ cache' = Store(cache, key, result.value)
                         /\ seen' = seen \cup {key}
                         /\ mai_served' = IF key \in seen THEN "recomputed" ELSE "first"

\* the keys of a caller that goes through more than maxsize distinct keys:
\* fresh keys (one per purchase price), and two keys it may repeat at any
\* time, a valid one and one the validation rejects
ProbeRate == RSub(RPow(Rat(3, 2), ANNUAL_MONTHS), One)
Filler(j) == <<FromInt(j), ProbeRate, 1>>
ProbeKeys == {<<One, ProbeRate, 2>>, <<One, Rat(-1, 2), 2>>}

-----------------------------------------------------------------------------
(* render_annual_sensitivity *)

\* int(x): truncation towards zero
IntOf(x) == IF x[1] >= 0 THEN x[1] \div x[2] ELSE -((-x[1]) \div x[2])

BaseProfitPct(profit_rate_) == IntOf(RMul(profit_rate_, FromInt(100)))

\* range(base_profit_pct - profit_delta, base_profit_pct + profit_delta + 1)
FirstCandidate(a) == BaseProfitPct(a.profit_rate) - a.profit_delta
LastCandidate(a) == BaseProfitPct(a.profit_rate) + a.profit_delta

\* the call in the try block
SweepCall(a, c) ==
    calculate_sale_price("Anual", a.profit_application, a.purchase_price,
                         a.tax_rate, Rat(c, 100), a.interest_rate)

\* "sale_price, _, _ = ...": the call returned and three values unpack
Unpacks(result) == result.status = "returned" /\ Len(result.value) = 3

\* a row of the table: the candidate (shown as "<candidate>%") and its price
Row(c, sale_price) == <<c, sale_price>>

\* the value a placeholder row would carry
NaN == <<0, 0>>

\* "except ValueError: continue"
OnValueErrorPlaceholder(rows, c) == Append(rows, Row(c, NaN))

OnValueError(rows, c) == rows

\* the candidate the loop goes on with after a ValueError ("continue")
AfterValueErrorBreak(a, c) == LastCandidate(a) + 1

AfterValueError(a, c) == c + 1

-----------------------------------------------------------------------------
(* Two invocations of iterate_interest_costs, consumed in any interleaving *)

Invocations == {1, 2}

\* the locals a resumed invocation reads and writes
FrameOfShared(gs, g) ==
    IF gs[3 - g].pc = "suspended" THEN gs[3 - g].frame ELSE gs[g].frame

FrameOf(gs, g) == gs[g].frame

\* a generator object on which no next() was called yet
CreatedGen(a) ==
    [pc |-> "created", args |-> a, frame |-> NoFrame, steps |-> <<>>,
     error |-> ""]

\* the generator object after its first next()
FirstNextOf(gen) ==
    LET p == gen.args.purchase_price
        s == gen.args.selic_rate
        T == gen.args.total_months
        err == ScheduleError(p, s, T)
    IN  IF err # ""
        THEN [gen EXCEPT !.pc = "raised", !.error = err]
        ELSE IF RangeHasNext(InitialFrame(p, s, T), T)
        THEN [gen EXCEPT !.pc = "suspended",
                         !.frame = LoopBody(InitialFrame(p, s, T)),
                         !.steps = Append(gen.steps,
                                          Yielded(LoopBody(InitialFrame(p, s, T))))]
        ELSE [gen EXCEPT !.pc = "exhausted", !.frame = InitialFrame(p, s, T)]

\* the generator object after a later next(), resumed on the frame f
ResumeOf(gen, f) ==
    IF RangeHasNext(AfterYield(f), gen.args.total_months)
    THEN [gen EXCEPT !.frame = LoopBody(AfterYield(f)),
                     !.steps = Append(gen.steps, Yielded(LoopBody(AfterYield(f))))]
    ELSE [gen EXCEPT !.pc = "exhausted", !.frame = AfterYield(f)]

-----------------------------------------------------------------------------
(* The state machine *)

IdlePricing ==
    /\ pc = "idle"
    /\ sale_type = "Anual"
    /\ profit_application = "Aplicado na compra"
    /\ purchase_price = One
    /\ tax_rate = Zero
    /\ profit_rate = Zero
    /\ interest_rate = Zero
    /\ outcome = NoOutcome

IdleSchedule ==
    /\ gen_pc = "none"
    /\ gen_args = [purchase_price |-> One, selic_rate |-> Zero, total_months |-> 1]
    /\ gen_frame = NoFrame
    /\ steps = <<>>
    /\ gen_error = ""

EmptyCache ==
    /\ mai_outcome = NoOutcome
    /\ mai_served = ""
    /\ cache = <<>>
    /\ seen = {}
    /\ fill_count = 0

IdleMinimum ==
    /\ mai_pc = "idle"
    /\ mai_args = <<One, Zero, 1>>
    /\ EmptyCache

IdlePair ==
    gens = [g \in Invocations |->
              [pc |-> "none",
               args |-> [purchase_price |-> One, selic_rate |-> Zero,
                         total_months |-> 1],
               frame |-> NoFrame, steps |-> <<>>, error |-> ""]]

IdleSweep ==
    /\ sweep_pc = "idle"
    /\ sweep_args = [profit_application |-> "Aplicado na compra",
                     purchase_price |-> One, tax_rate |-> Zero,
                     profit_rate |-> Zero, interest_rate |-> Zero,
                     profit_delta |-> 0]
    /\ candidate = 0
    /\ data = <<>>

\* a caller is about to call calculate_sale_price with arguments of its choice
InitPricing ==
    /\ pc = "called"
    /\ sale_type \in SaleTypes
    /\ profit_application \in ProfitApplications
    /\ purchase_price \in Prices
    /\ tax_rate \in Rates
    /\ profit_rate \in Rates
    /\ interest_rate \in InterestRates
    /\ outcome = NoOutcome
    /\ IdleSchedule
    /\ IdleMinimum
    /\ IdleSweep
    /\ IdlePair

\* a consumer has called iterate_interest_costs: the generator object exists
\* and none of the function's code has run
InitSchedule ==
    /\ IdlePricing
    /\ IdleMinimum
    /\ IdleSweep
    /\ IdlePair
    /\ gen_pc = "created"
    /\ gen_args \in [purchase_price : Prices, selic_rate : SelicRates,
                     total_months : Months]
    /\ gen_frame = NoFrame
    /\ steps = <<>>
    /\ gen_error = ""

\* a caller is about to call minimum_acceptable_interest, the cache empty
InitMinimum ==
    /\ IdlePricing
    /\ IdleSchedule
    /\ mai_pc = "called"
    /\ mai_args \in Prices \X SelicRates \X Months
    /\ EmptyCache
    /\ IdleSweep
    /\ IdlePair

Init == InitPricing \/ InitSchedule \/ InitMinimum

\* the call of calculate_sale_price, from entry to return or raise
CalculateSalePrice ==
    /\ pc = "called"
    /\ outcome' = calculate_sale_price(sale_type, profit_application,
                        purchase_price, tax_rate, profit_rate, interest_rate)
    /\ pc' = outcome'.status
    /\ UNCHANGED <<sale_type, profit_application, purchase_price, tax_rate,
                   profit_rate, interest_rate>>
    /\ UNCHANGED <<gen_vars, mai_vars, sweep_vars, gens>>

\* the consumer's first next(): the function runs from its first line to
\* the first yield, or raises
GenFirstNext ==
    /\ gen_pc = "created"
    /\ LET p == gen_args.purchase_price
           s == gen_args.selic_rate
           T == gen_args.total_months
           err == ScheduleError(p, s, T)
       IN  IF err # ""
           THEN /\ gen_pc' = "raised"
                /\ gen_error' = err
                /\ UNCHANGED <<gen_frame, steps>>
           ELSE IF RangeHasNext(InitialFrame(p, s, T), T)
           THEN /\ gen_frame' = LoopBody(InitialFrame(p, s, T))
                /\ steps' = Append(steps, Yielded(gen_frame'))
                /\ gen_pc' = "suspended"
                /\ UNCHANGED gen_error
           ELSE /\ gen_frame' = InitialFrame(p, s, T)
                /\ gen_pc' = "exhausted"
                /\ UNCHANGED <<steps, gen_error>>
    /\ UNCHANGED <<gen_args>>
    /\ UNCHANGED <<pricing_vars, mai_vars, sweep_vars, gens>>

\* a later next(): the function resumes after the yield and runs to the
\* next yield, or falls off the loop (StopIteration)
GenResume ==
    /\ gen_pc = "suspended"
    /\ LET f == AfterYield(gen_frame)
       IN  IF RangeHasNext(f, gen_args.total_months)
           THEN /\ gen_frame' = LoopBody(f)
                /\ steps' = Append(steps, Yielded(gen_frame'))
                /\ gen_pc' = "suspended"
           ELSE /\ gen_frame' = f
                /\ gen_pc' = "exhausted"
                /\ UNCHANGED steps
    /\ UNCHANGED <<gen_args, gen_error>>
    /\ UNCHANGED <<pricing_vars, mai_vars, sweep_vars, gens>>

\* the call of minimum_acceptable_interest, through its cache
MinimumAcceptableInterest ==
    /\ mai_pc = "called"
    /\ CachedCall(mai_args[1], mai_args[2], mai_args[3])
    /\ mai_pc' = "done"
    /\ UNCHANGED <<mai_args, fill_count>>
    /\ UNCHANGED <<pricing_vars, gen_vars, sweep_vars, gens>>

Next == CalculateSalePrice \/ GenFirstNext \/ GenResume \/ MinimumAcceptableInterest

Spec == Init /\ [][Next]_vars

\* A caller that keeps calling minimum_acceptable_interest, as the page does
\* on every re-render: with its next fresh key, or with a key it repeats.
InitCache == IdlePricing /\ IdleSchedule /\ IdleMinimum /\ IdleSweep /\ IdlePair

CallFresh ==
    /\ fill_count < MaxFill
    /\ mai_args' = Filler(fill_count + 1)
    /\ CachedCall(mai_args'[1], mai_args'[2], mai_args'[3])
    /\ fill_count' = fill_count + 1
    /\ mai_pc' = "done"
    /\ UNCHANGED <<pricing_vars, gen_vars, sweep_vars, gens>>

CallAgain ==
    /\ \E key \in ProbeKeys :
        /\ mai_args' = key
        /\ CachedCall(key[1], key[2], key[3])
    /\ mai_pc' = "done"
    /\ UNCHANGED fill_count
    /\ UNCHANGED <<pricing_vars, gen_vars, sweep_vars, gens>>

NextCache == CallFresh \/ CallAgain

CacheSpec == InitCache /\ [][NextCache]_vars


\* render_annual_sensitivity has been called with arguments of the caller's choice
InitSweep ==
    /\ IdlePricing
    /\ IdleSchedule
    /\ IdleMinimum
    /\ IdlePair
    /\ sweep_pc = "called"
    /\ sweep_args \in [profit_application : ProfitApplications,
                       purchase_price : Prices, tax_rate : Rates,
                       profit_rate : Rates, interest_rate : InterestRates,
                       profit_delta : 0..MaxDelta]
    /\ candidate = 0
    /\ data = <<>>

\* up to the first evaluation of the range
SweepBegin ==
    /\ sweep_pc = "called"
    /\ candidate' = FirstCandidate(sweep_args)
    /\ data' = <<>>
    /\ sweep_pc' = "looping"
    /\ UNCHANGED sweep_args
    /\ UNCHANGED <<pricing_vars, gen_vars, mai_vars, gens>>

\* one iteration of the loop: the try block and its except clause
SweepIterate ==
    /\ sweep_pc = "looping"
    /\ candidate <= LastCandidate(sweep_args)
    /\ LET result == SweepCall(sweep_args, candidate)
       IN  IF Unpacks(result)
           THEN /\ data' = Append(data, Row(candidate, result.value[1]))
                /\ candidate' = candidate + 1
           ELSE /\ data' = OnValueError(data, candidate)
                /\ candidate' = AfterValueError(sweep_args, candidate)
    /\ UNCHANGED <<sweep_pc, sweep_args>>
    /\ UNCHANGED <<pricing_vars, gen_vars, mai_vars, gens>>

\* the range is exhausted: the table is built from data
SweepEnd ==
    /\ sweep_pc = "looping"
    /\ candidate > LastCandidate(sweep_args)
    /\ sweep_pc' = "done"
    /\ UNCHANGED <<sweep_args, candidate, data>>
    /\ UNCHANGED <<pricing_vars, gen_vars, mai_vars, gens>>

NextSweep == SweepBegin \/ SweepIterate \/ SweepEnd

SweepSpec == InitSweep /\ [][NextSweep]_vars

\* a consumer has called iterate_interest_costs twice: two generator objects
InitPair ==
    /\ IdlePricing
    /\ IdleSchedule
    /\ IdleMinimum
    /\ IdleSweep
    /\ gens \in [Invocations ->
                   {CreatedGen(a) : a \in [purchase_price : Prices,
                                           selic_rate : SelicRates,
                                           total_months : Months]}]

\* the first next() on one of the two generator objects
PairFirstNext ==
    /\ \E g \in Invocations :
          /\ gens[g].pc = "created"
          /\ gens' = [gens EXCEPT ![g] = FirstNextOf(gens[g])]
    /\ UNCHANGED <<pricing_vars, gen_vars, mai_vars, sweep_vars>>

\* a later next() on one of the two generator objects
PairResume ==
    /\ \E g \in Invocations :
          /\ gens[g].pc = "suspended"
          /\ gens' = [gens EXCEPT ![g] = ResumeOf(gens[g], FrameOf(gens, g))]
    /\ UNCHANGED <<pricing_vars, gen_vars, mai_vars, sweep_vars>>

NextPair == PairFirstNext \/ PairResume

PairSpec == InitPair /\ [][NextPair]_vars

-----------------------------------------------------------------------------
(* Vocabulary of the claims, stated on the arguments of the call *)

FieldMessages ==
    {"purchase_price must be > 0", "tax_rate must be in range [0, 1)",
     "profit_rate must be in range [0, 1)", "interest_rate must be >= 0"}
ProfitTaxMessage == "profit_rate + tax_rate makes calculation impossible (>= 100%)"
TaxMessage == "tax_rate makes calculation impossible (>= 100%)"

InUnit(x) == RLe(Zero, x) /\ RLt(x, One)
ValidFields ==
    /\ RLt(Zero, purchase_price)
    /\ InUnit(tax_rate)
    /\ InUnit(profit_rate)
    /\ RLe(Zero, interest_rate)
KnownBranch == sale_type \in OPTIONS_VENDA /\ profit_application \in OPTIONS_LUCRO
AtSale == profit_application = "Aplicado na venda"
AtCost == profit_application = "Aplicado na compra"
\* d = 1 - profit_rate - tax_rate, for a profit rate r
Denom(r) == RSub(RSub(One, r), tax_rate)
\* the denominator the branch divides by is positive, for a profit rate r
FeasibleWith(r) == RLt(tax_rate, One) /\ (AtSale => RLt(Zero, Denom(r)))
ValidInput == ValidFields /\ KnownBranch /\ FeasibleWith(profit_rate)
CallDone == pc \in {"returned", "raised"}
\* m = 1 / (1 - tax_rate)
RefM == RDiv(One, RSub(One, tax_rate))

C2_ProfitTaxErrorOnlyAtSale ==
    (CallDone /\ ValidFields /\ KnownBranch) =>
        /\ (outcome.status = "raised" /\ outcome.error = ProfitTaxMessage)
              <=> (AtSale /\ RLe(Denom(profit_rate), Zero))
        /\ AtCost => outcome.status = "returned"

C2_Witness ==
    /\ pc = "raised"
    /\ outcome.error = ProfitTaxMessage
    /\ sale_type = "Mensal"
    /\ ValidFields
    /\ RLt(Denom(profit_rate), Zero)

(* C3: with tax_rate = 1 and the other inputs valid, the call fails with   *)
(* the infeasibility error "tax_rate makes calculation impossible".        *)
C3_TaxAloneIsInfeasibility ==
    (/\ CallDone
     /\ tax_rate = One
     /\ RLt(Zero, purchase_price)
     /\ InUnit(profit_rate)
     /\ RLe(Zero, interest_rate)
     /\ KnownBranch)
        => (outcome.status = "raised" /\ outcome.error = TaxMessage)

(* C4: for every valid input the returned sale_price is the reference      *)
(* formula of the branch: p*m*(1+r); p/d; p*m*(1+r+i)/12;                   *)
(* (p/d + p*i*m)/12.                                                       *)
RefSalePrice ==
    LET p == purchase_price
        r == profit_rate
        i == interest_rate
        d == Denom(r)
        twelve == FromInt(12)
    IN  IF sale_type = "Anual"
        THEN IF AtCost THEN RMul(RMul(p, RefM), RAdd(One, r))
             ELSE RDiv(p, d)
        ELSE IF AtCost
             THEN RDiv(RMul(RMul(p, RefM), RAdd(RAdd(One, r), i)), twelve)
             ELSE RDiv(RAdd(RDiv(p, d), RMul(RMul(p, i), RefM)), twelve)

C4_SalePriceIsReferenceFormula ==
    (CallDone /\ ValidInput) =>
        /\ outcome.status = "returned"
        /\ outcome.value[1] = RefSalePrice

C4_Witness ==
    /\ pc = "returned"
    /\ sale_type = "Mensal"
    /\ AtSale
    /\ RLt(Zero, profit_rate)
    /\ RLt(Zero, tax_rate)
    /\ RLt(Zero, interest_rate)

(* C5: for every valid input the returned net_profit is                    *)
(* sale_price*(1 - t) - p in the Anual branches and                        *)
(* annual*(1 - t) - p*i - p in the Mensal branches, annual being 12 times  *)
(* the returned monthly sale_price.                                        *)
C5_NetProfitIsReferenceFormula ==
    (CallDone /\ ValidInput) =>
        /\ outcome.status = "returned"
        /\ LET sp == outcome.value[1]
               annual == RMul(FromInt(12), sp)
               keep == RSub(One, tax_rate)
           IN  outcome.value[2] =
                 IF sale_type = "Anual"
                 THEN RSub(RMul(sp, keep), purchase_price)
                 ELSE RSub(RSub(RMul(annual, keep),
                                RMul(purchase_price, interest_rate)),
                           purchase_price)

C5_Witness ==
    /\ pc = "returned"
    /\ sale_type = "Mensal"
    /\ AtCost
    /\ RLt(Zero, tax_rate)
    /\ RLt(Zero, interest_rate)

(* C6: on success the call returns exactly two values, the pair            *)
(* (sale_price, net_profit), in each of the four branches.                 *)
C6_ReturnsPair ==
    pc = "returned" => Len(outcome.value) = 2

(* C7: with everything else fixed, a larger feasible profit rate gives a   *)
(* strictly larger sale_price, in each of the four branches.               *)
C7_SalePriceIncreasesWithProfitRate ==
    (CallDone /\ ValidInput) =>
        \A r2 \in Rates :
            (InUnit(r2) /\ RLt(profit_rate, r2) /\ FeasibleWith(r2)) =>
                LET other == calculate_sale_price(sale_type, profit_application,
                                purchase_price, tax_rate, r2, interest_rate)
                IN  /\ outcome.status = "returned"
                    /\ other.status = "returned"
                    /\ RLt(outcome.value[1], other.value[1])

C7_Witness ==
    /\ pc = "returned"
    /\ sale_type = "Mensal"
    /\ AtSale
    /\ RLt(Zero, tax_rate)
    /\ \E r2 \in Rates : InUnit(r2) /\ RLt(profit_rate, r2) /\ FeasibleWith(r2)

(* C8: with everything else fixed, a larger interest rate gives a strictly *)
(* larger sale_price in both Mensal branches and the same sale_price and   *)
(* net_profit in both Anual branches.                                      *)
C8_InterestRateEffect ==
    (CallDone /\ ValidInput) =>
        \A i2 \in InterestRates :
            RLt(interest_rate, i2) =>
                LET other == calculate_sale_price(sale_type, profit_application,
                                purchase_price, tax_rate, profit_rate, i2)
                IN  /\ outcome.status = "returned"
                    /\ other.status = "returned"
                    /\ IF sale_type = "Mensal"
                       THEN RLt(outcome.value[1], other.value[1])
                       ELSE /\ other.value[1] = outcome.value[1]
                            /\ other.value[2] = outcome.value[2]

C8_Witness ==
    /\ pc = "returned"
    /\ sale_type = "Mensal"
    /\ AtSale
    /\ RLt(Zero, profit_rate)
    /\ \E i2 \in InterestRates : RLt(interest_rate, i2)

-----------------------------------------------------------------------------
(* Claims about iterate_interest_costs *)

ScheduleValid ==
    /\ RLt(Zero, gen_args.purchase_price)
    /\ gen_args.total_months >= 1
    /\ RLe(Zero, gen_args.selic_rate)

(* C9: for valid inputs, consuming the generator to the end terminates,    *)
(* after exactly total_months steps whose months are 1, 2, ...,            *)
(* total_months in that order.  Termination: every next() on an unfinished *)
(* generator either exhausts it or hands over one more step, and there are *)
(* never more than total_months steps.                                     *)
C9_YieldsTotalMonthsSteps ==
    /\ [](/\ \A k \in 1..Len(steps) : steps[k].month = k
          /\ ScheduleValid => Len(steps) <= gen_args.total_months
          /\ (ScheduleValid /\ gen_pc = "exhausted")
                => Len(steps) = gen_args.total_months)
    /\ [][(ScheduleValid /\ gen_pc \in {"created", "suspended"}) =>
            \/ gen_pc' = "exhausted" /\ steps' = steps
            \/ gen_pc' = "suspended" /\ Len(steps') = Len(steps) + 1]_vars

C9_Witness ==
    /\ gen_pc = "exhausted"
    /\ Len(steps) = MaxMonths
    /\ steps[MaxMonths].month = MaxMonths

RefMonthlyRate(s) ==
    CHOOSE q \in {Rat(k, 2) : k \in 0..MaxMonthlyNum} :
        RPow(RAdd(One, q), 12) = RAdd(One, s)

RECURSIVE SumInterest(_, _)
SumInterest(sq, m) ==
    IF m = 0 THEN Zero ELSE RAdd(SumInterest(sq, m - 1), sq[m].monthly_interest)

(* C11: each step's monthly_interest is its outstanding_balance times the  *)
(* monthly rate, its cumulative_interest is the sum of monthly_interest    *)
(* over steps 1..m; so cumulative_interest never decreases and the first   *)
(* step's cumulative_interest is its monthly_interest.                     *)
C11_InterestAndCumulative ==
    \A m \in 1..Len(steps) :
        /\ steps[m].monthly_interest =
              RMul(steps[m].outstanding_balance, RefMonthlyRate(gen_args.selic_rate))
        /\ steps[m].cumulative_interest = SumInterest(steps, m)
        /\ m = 1 => steps[m].cumulative_interest = steps[m].monthly_interest
        /\ m > 1 => RLe(steps[m - 1].cumulative_interest, steps[m].cumulative_interest)

C11_Witness ==
    /\ gen_pc = "exhausted"
    /\ Len(steps) >= 3
    /\ RLt(Zero, gen_args.selic_rate)
    /\ RLt(steps[1].cumulative_interest, steps[3].cumulative_interest)

(* C13: consuming the generator fails, before any step is yielded and with *)
(* the message of the offending field, exactly when purchase_price <= 0,   *)
(* total_months < 1 or selic_rate < 0; of several violations the first in  *)
(* that order is reported.                                                 *)
C13_ScheduleErrorIffInvalid ==
    LET p == gen_args.purchase_price
        s == gen_args.selic_rate
        T == gen_args.total_months
    IN  gen_pc \in {"suspended", "exhausted", "raised"} =>
            /\ gen_pc = "raised" <=> (RLe(p, Zero) \/ T < 1 \/ RLt(s, Zero))
            /\ gen_pc = "raised" =>
                /\ steps = <<>>
                /\ gen_error =
                      IF RLe(p, Zero) THEN "purchase_price must be > 0"
                      ELSE IF T < 1 THEN "total_months must be >= 1"
                      ELSE "selic_rate must be >= 0"
            /\ gen_pc # "raised" => gen_error = "" /\ Len(steps) >= 1

C13_Witness ==
    /\ gen_pc = "raised"
    /\ gen_error = "total_months must be >= 1"
    /\ RLt(gen_args.selic_rate, Zero)
    /\ steps = <<>>

-----------------------------------------------------------------------------
(* C20: with valid numeric inputs, an unknown sale_type raises "Invalid    *)
(* sale_type", a known sale_type with an unknown profit_application raises *)
(* "Invalid profit_application", and neither returns a result.             *)
C20_UnknownOptionsRaise ==
    (CallDone /\ ValidFields) =>
        /\ sale_type \notin OPTIONS_VENDA =>
            /\ outcome.status = "raised"
            /\ outcome.error = "Invalid sale_type: " \o sale_type
            /\ outcome.value = <<>>
        /\ (sale_type \in OPTIONS_VENDA /\ profit_application \notin OPTIONS_LUCRO) =>
            /\ outcome.status = "raised"
            /\ outcome.error = "Invalid profit_application: " \o profit_application
            /\ outcome.value = <<>>

C20_Witness ==
    /\ pc = "raised"
    /\ ValidFields
    /\ sale_type = "Mensal"
    /\ profit_application = "Invalid"
    /\ outcome.error = "Invalid profit_application: Invalid"

-----------------------------------------------------------------------------
(* Claims about minimum_acceptable_interest *)

MaiValid ==
    /\ RLt(Zero, mai_args[1])
    /\ mai_args[3] >= 1
    /\ RLe(Zero, mai_args[2])

(* C12: with selic_rate = 0 and valid purchase_price and total_months,     *)
(* every yielded step has monthly_interest 0 and cumulative_interest 0,    *)
(* and minimum_acceptable_interest returns exactly 0.                      *)
C12_ZeroRateZeroInterest ==
    /\ gen_args.selic_rate = Zero =>
          \A m \in 1..Len(steps) :
              /\ steps[m].monthly_interest = Zero
              /\ steps[m].cumulative_interest = Zero
    /\ (mai_pc = "done" /\ MaiValid /\ mai_args[2] = Zero) =>
          /\ mai_outcome.status = "returned"
          /\ mai_outcome.value = Zero

C12_Witness ==
    /\ mai_pc = "done"
    /\ mai_args[2] = Zero
    /\ mai_args[3] >= 3
    /\ mai_outcome.status = "returned"
    /\ mai_outcome.value = Zero

(* C14: for valid inputs minimum_acceptable_interest returns 100 * c /     *)
(* purchase_price, c being the cumulative_interest of the last step of     *)
(* iterate_interest_costs for the same arguments; the result is strictly   *)
(* positive whenever selic_rate > 0.                                       *)
C14_MinimumIsLastCumulativePercent ==
    (mai_pc = "done" /\ MaiValid) =>
        LET p == mai_args[1]
            all == Schedule(p, mai_args[2], mai_args[3])
            c == all[Len(all)].cumulative_interest
        IN  /\ mai_outcome.status = "returned"
            /\ mai_outcome.value = RDiv(RMul(FromInt(100), c), p)
            /\ RLt(Zero, mai_args[2]) => RLt(Zero, mai_outcome.value)

C14_Witness ==
    /\ mai_pc = "done"
    /\ MaiValid
    /\ RLt(Zero, mai_args[2])
    /\ mai_args[3] >= 3
    /\ mai_args[1] = FromInt(2)
    /\ RLt(Zero, mai_outcome.value)

\* 100 * (sum over m = 1..T of p*(T - m + 1)/T * q) / p, q the monthly rate of s
RECURSIVE RefInterestSum(_, _, _, _)
RefInterestSum(p, q, T, m) ==
    IF m = 0 THEN Zero
    ELSE RAdd(RefInterestSum(p, q, T, m - 1),
              RMul(RDiv(RMul(p, FromInt(T - m + 1)), FromInt(T)), q))

RefMinimum(p, s, T) ==
    RDiv(RMul(FromInt(100), RefInterestSum(p, RefMonthlyRate(s), T, T)), p)

(* C15: after any sequence of calls the cache holds at most 128 entries    *)
(* and every call returns what the uncached computation returns for its    *)
(* exact triple, be it a hit, a first computation or a recomputation after *)
(* eviction; repeated calls with identical inputs return equal values.     *)
C15_CacheIsTransparent ==
    /\ [](/\ Len(cache) <= 128
          /\ mai_pc = "done" =>
                IF MaiValid
                THEN /\ mai_outcome.status = "returned"
                     /\ mai_outcome.value =
                            RefMinimum(mai_args[1], mai_args[2], mai_args[3])
                ELSE mai_outcome.status = "raised")
    /\ [][(mai_pc = "done" /\ mai_pc' = "done" /\ mai_args' = mai_args)
            => mai_outcome' = mai_outcome]_vars

C15_Witness ==
    /\ mai_pc = "done"
    /\ mai_served = "recomputed"
    /\ Len(cache) = 128
    /\ mai_outcome.status = "returned"

(* C16: for fixed purchase_price and total_months, a larger valid annual   *)
(* rate gives a strictly greater result.                                   *)
C16_MinimumIncreasesWithRate ==
    (mai_pc = "done" /\ MaiValid) =>
        \A s2 \in SelicRates :
            RLt(mai_args[2], s2) =>
                LET other == minimum_acceptable_interest(mai_args[1], s2, mai_args[3])
                IN  /\ mai_outcome.status = "returned"
                    /\ other.status = "returned"
                    /\ RLt(mai_outcome.value, other.value)

C16_Witness ==
    /\ mai_pc = "done"
    /\ MaiValid
    /\ RLt(Zero, mai_args[2])
    /\ mai_args[3] >= 2
    /\ \E s2 \in SelicRates : RLt(mai_args[2], s2)

-----------------------------------------------------------------------------
(* Claims about render_annual_sensitivity, stated on its arguments *)

\* the integer part of 100 * profit_rate, towards zero
SwBase ==
    LET n == 100 * sweep_args.profit_rate[1]
        d == sweep_args.profit_rate[2]
    IN  CHOOSE b \in -150..150 :
            IF n >= 0
            THEN b * d <= n /\ n < (b + 1) * d
            ELSE (b - 1) * d < n /\ n <= b * d
SwFirst == SwBase - sweep_args.profit_delta
SwLast == SwBase + sweep_args.profit_delta

\* calculate_sale_price succeeds at candidate c
SwSucceeds(c) ==
    LET r == Rat(c, 100)
        t == sweep_args.tax_rate
    IN  /\ RLt(Zero, sweep_args.purchase_price)
        /\ InUnit(t)
        /\ InUnit(r)
        /\ RLe(Zero, sweep_args.interest_rate)
        /\ sweep_args.profit_application \in OPTIONS_LUCRO
        /\ sweep_args.profit_application = "Aplicado na venda"
              => RLt(Zero, RSub(RSub(One, r), t))

\* the Anual sale price at candidate c
SwPrice(c) ==
    LET r == Rat(c, 100)
        t == sweep_args.tax_rate
        p == sweep_args.purchase_price
    IN  IF sweep_args.profit_application = "Aplicado na compra"
        THEN RMul(RMul(p, RDiv(One, RSub(One, t))), RAdd(One, r))
        ELSE RDiv(p, RSub(RSub(One, r), t))

\* the rows of the successful candidates of from..to, ascending
RECURSIVE SwExpected(_, _)
SwExpected(from, to) ==
    IF from > to THEN <<>>
    ELSE (IF SwSucceeds(from) THEN << <<from, SwPrice(from)>> >> ELSE <<>>)
            \o SwExpected(from + 1, to)

(* C17: the sweep visits every candidate from base - delta to base + delta *)
(* in turn; a failing candidate never aborts it; and every candidate whose *)
(* calculation succeeds is in the output with its sale price, in ascending *)
(* order.                                                                  *)
C17_SweepVisitsAllAndKeepsSuccesses ==
    /\ [](sweep_pc \in {"looping", "done"} =>
            /\ candidate \in SwFirst..(SwLast + 1)
            /\ data = SwExpected(SwFirst, candidate - 1)
            /\ sweep_pc = "done" => candidate = SwLast + 1)
    /\ [][(sweep_pc = "looping" /\ sweep_pc' = "looping")
            => candidate' = candidate + 1]_vars

C17_Witness ==
    /\ sweep_pc = "done"
    /\ sweep_args.profit_application = "Aplicado na venda"
    /\ RLt(Zero, sweep_args.tax_rate)
    /\ sweep_args.profit_delta = MaxDelta
    /\ Len(data) > 0
    /\ Len(data) < 2 * sweep_args.profit_delta + 1
    /\ data[Len(data)][1] < SwLast

(* C18: a grid point whose calculation fails is still represented in the   *)
(* result (a missing/NaN cell), so the output has one cell per candidate.  *)
C18_OneCellPerCandidate ==
    sweep_pc = "done" => Len(data) = 2 * sweep_args.profit_delta + 1

(* C18 as amended: a grid point whose calculation fails is left out of the *)
(* result: the output has one row per candidate whose calculation          *)
(* succeeded and no placeholder row, so it has a row for every candidate   *)
(* only when none fails.                                                   *)
C18_FailedPointsOmitted ==
    sweep_pc = "done" =>
        /\ Len(data) = Cardinality({c \in SwFirst..SwLast : SwSucceeds(c)})
        /\ \A k \in 1..Len(data) :
              /\ data[k][1] \in SwFirst..SwLast
              /\ SwSucceeds(data[k][1])
              /\ data[k][2] # NaN
        /\ Len(data) = 2 * sweep_args.profit_delta + 1
              <=> \A c \in SwFirst..SwLast : SwSucceeds(c)

C18_Witness ==
    /\ sweep_pc = "done"
    /\ sweep_args.profit_application = "Aplicado na compra"
    /\ sweep_args.profit_delta >= 1
    /\ Len(data) > 0
    /\ Len(data) < 2 * sweep_args.profit_delta + 1

-----------------------------------------------------------------------------
(* Claims about two invocations of iterate_interest_costs *)

\* what the invocation g yields when it is the only one and consumed to the end
Alone(g) ==
    LET a == gens[g].args
    IN  IF /\ RLt(Zero, a.purchase_price)
           /\ a.total_months >= 1
           /\ RLe(Zero, a.selic_rate)
        THEN Schedule(a.purchase_price, a.selic_rate, a.total_months)
        ELSE <<>>

IsPrefix(s, t) == Len(s) <= Len(t) /\ SubSeq(t, 1, Len(s)) = s

(* C19: invocations share no state. Consumed in any interleaving, each of  *)
(* two invocations has received at every moment a prefix of the sequence   *)
(* it yields alone, and all of it once exhausted; two invocations with the *)
(* same arguments yield the same sequence.                                 *)
C19_InvocationsAreIndependent ==
    /\ \A g \in Invocations :
          /\ IsPrefix(gens[g].steps, Alone(g))
          /\ gens[g].pc = "exhausted" => gens[g].steps = Alone(g)
          /\ gens[g].pc = "raised" => gens[g].steps = <<>>
    /\ gens[1].args = gens[2].args =>
          \/ IsPrefix(gens[1].steps, gens[2].steps)
          \/ IsPrefix(gens[2].steps, gens[1].steps)

C19_Witness ==
    /\ gens[1].pc = "suspended"
    /\ gens[2].pc = "suspended"
    /\ Len(gens[1].steps) >= 2
    /\ Len(gens[2].steps) >= 1
    /\ gens[1].args # gens[2].args
    /\ RLt(Zero, gens[1].args.selic_rate)
    /\ RLt(Zero, gens[2].args.selic_rate)

-----------------------------------------------------------------------------
(* Claims relating calls with different arguments *)

\* the net_profit of the call with the state's placement, price, tax and
\* profit rate, for the sale type st and the interest rate i
NetProfitAt(st, i) ==
    calculate_sale_price(st, profit_application, purchase_price, tax_rate,
                         profit_rate, i).value[2]

(* C21: for every valid input net_profit depends neither on the sale type  *)
(* nor on interest_rate: it is the same for Anual and Mensal and for every *)
(* valid interest rate; at cost it is purchase_price * profit_rate, at     *)
(* sale purchase_price * profit_rate / (1 - profit_rate - tax_rate); it is *)
(* strictly positive exactly when profit_rate > 0.                         *)
C21_NetProfitIgnoresHorizonAndInterest ==
    (CallDone /\ ValidInput) =>
        /\ outcome.status = "returned"
        /\ \A st \in OPTIONS_VENDA :
              \A i \in {x \in InterestRates : RLe(Zero, x)} :
                  NetProfitAt(st, i) = outcome.value[2]
        /\ AtCost => outcome.value[2] = RMul(purchase_price, profit_rate)
        /\ AtSale => outcome.value[2] =
                        RDiv(RMul(purchase_price, profit_rate), Denom(profit_rate))
        /\ RLt(Zero, outcome.value[2]) <=> RLt(Zero, profit_rate)

C21_Witness ==
    /\ pc = "returned"
    /\ sale_type = "Mensal"
    /\ AtSale
    /\ RLt(Zero, interest_rate)
    /\ RLt(Zero, profit_rate)
    /\ RLt(Zero, tax_rate)
    /\ RLt(Zero, outcome.value[2])
    /\ NetProfitAt("Anual", Zero) = outcome.value[2]

(* C22: for valid inputs minimum_acceptable_interest does not depend on    *)
(* purchase_price: every positive price gives the same result for the same *)
(* selic_rate and total_months, namely                                     *)
(* 100 * monthly_rate * (total_months + 1) / 2.                            *)
C22_MinimumIgnoresPrice ==
    (mai_pc = "done" /\ MaiValid) =>
        /\ mai_outcome.status = "returned"
        /\ mai_outcome.value =
              RDiv(RMul(RMul(FromInt(100), RefMonthlyRate(mai_args[2])),
                        FromInt(mai_args[3] + 1)),
                   FromInt(2))
        /\ \A p2 \in {x \in Prices : RLt(Zero, x)} :
              minimum_acceptable_interest(p2, mai_args[2], mai_args[3]).value
                  = mai_outcome.value

C22_Witness ==
    /\ mai_pc = "done"
    /\ MaiValid
    /\ mai_args[1] = FromInt(MaxPrice)
    /\ RLt(Zero, mai_args[2])
    /\ mai_args[3] >= 2
    /\ minimum_acceptable_interest(One, mai_args[2], mai_args[3]).value
          = mai_outcome.value
    /\ RLt(Zero, mai_outcome.value)

=============================================================================
